---- MODULE Spec2Model ----
(***************************************************************************)
(* HuggingFaceModelWithZLoss (llmfoundry/models/hf/model_wrapper.py):      *)
(* construction, forward(batch), loss(outputs, batch) and get_metadata(),  *)
(* driven by a single-threaded caller (the trainer or a test).             *)
(*                                                                         *)
(* Tensors are sequences of sequences (shape [batch, length]).  Scalar     *)
(* float tensors are exact rationals <<numerator, denominator>>; the       *)
(* denominator 0 stands for NaN (the mean of an empty selection).          *)
(***************************************************************************)
EXTENDS Integers, Sequences, FiniteSets, TLC

\* Largest number of sequences in a batch and largest sequence length.
MaxBatch == 2
MaxLen == 2

\* model_wrapper.py:25
HF_IGNORE_INDEX == -100

\* z_loss values handed to the constructor.
ZLossValues == {-1, 0, 1}

\* Python object kinds of a batch: dict, collections.UserDict, a mutable
\* mapping that is neither (it has pop/items but fails both isinstance
\* tests), and a list.
BatchKinds == {"dict", "UserDict", "MutableMapping", "list"}

TmpNames == {"tmpA", "tmpB"}

---------------------------------------------------------------------------
\* Exact rationals standing for float scalars.

NaN == <<0, 0>>

Abs(n) == IF n < 0 THEN -n ELSE n

RECURSIVE Gcd(_, _)
Gcd(a, b) == IF b = 0 THEN a ELSE Gcd(b, a % b)

Rat(n, d) ==
    IF d = 0 THEN NaN
    ELSE LET g == Gcd(Abs(n), Abs(d))
             s == IF d < 0 THEN -1 ELSE 1
         IN  <<(s * n) \div g, (s * d) \div g>>

IsNaN(x) == x[2] = 0

RAdd(x, y) ==
    IF IsNaN(x) \/ IsNaN(y) THEN NaN
    ELSE Rat(x[1] * y[2] + y[1] * x[2], x[2] * y[2])

RScale(x, k) == IF IsNaN(x) THEN NaN ELSE Rat(x[1] * k, x[2])

RECURSIVE SumSeq(_)
SumSeq(s) == IF s = <<>> THEN 0 ELSE Head(s) + SumSeq(Tail(s))

\* Tensor.mean() of a 1-d tensor; NaN when the tensor is empty.
Mean(s) == Rat(SumSeq(s), Len(s))

---------------------------------------------------------------------------
\* Tensor helpers.

Size0(t) == Len(t)
Size1(t) == Len(t[1])
Numel(t) == Size0(t) * Size1(t)

\* Tensor.view(-1): row-major flattening.
Flatten(t) ==
    [k \in 1..Numel(t) |->
        t[((k - 1) \div Size1(t)) + 1][((k - 1) % Size1(t)) + 1]]

\* The inverse reshape to [B, L].
Unflatten(f, B, L) ==
    [b \in 1..B |-> [i \in 1..L |-> f[(b - 1) * L + i]]]

\* torch.roll(x, shifts=-1) with no dims: the tensor is flattened, rolled
\* left by one with wrap-around, and restored to its shape.
Roll(t) ==
    LET f == Flatten(t)
        n == Numel(t)
    IN  Unflatten([k \in 1..n |-> f[(k % n) + 1]], Size0(t), Size1(t))

\* labels[:, -1] = v
SetLastColumn(t, v) ==
    [b \in 1..Size0(t) |->
        [i \in 1..Size1(t) |-> IF i = Size1(t) THEN v ELSE t[b][i]]]

\* A mutant of ShiftLabels: the roll without the overwrite of the last column.
ShiftLabelsNoOverwrite(labels) == Roll(labels)

\* forward, lines 89-90: the labels the cross entropy is computed against.
ShiftLabels(labels) == SetLastColumn(Roll(labels), HF_IGNORE_INDEX)

\* The token at position (b, i) of input_ids in a batch of shape [B, L].
Token(b, i, L) == (b - 1) * L + i

InputIds(B, L) == [b \in 1..B |-> [i \in 1..L |-> Token(b, i, L)]]

\* Label tensors of shape [B, L]: each label is the token of its position
\* or the ignore index.
LabelTensors(B, L) ==
    { [b \in 1..B |-> [i \in 1..L |->
          IF m[b][i] THEN Token(b, i, L) ELSE HF_IGNORE_INDEX]] :
      m \in [1..B -> [1..L -> BOOLEAN]] }

\* The wrapped model's logits are a tensor of rows over the vocabulary; a
\* row is named by an id, and these two operators tabulate the numbers the
\* code derives from a row.
LogitsOf(input_ids) ==
    [b \in 1..Size0(input_ids) |->
        [i \in 1..Size1(input_ids) |-> (input_ids[b][i] % 2) + 1]]

\* torch.logsumexp(row, dim=1) of one row.
LogSumExp(row) == row + 1

\* The negative log-likelihood of class v under a row (logsumexp - logit).
Nll(row, v) == LogSumExp(row) - ((row + v) % 2)

\* Boolean-mask indexing x[mask] of a 1-d sequence.
RECURSIVE MaskSelect(_, _)
MaskSelect(s, mask) ==
    IF s = <<>> THEN <<>>
    ELSE (IF Head(mask) THEN <<Head(s)>> ELSE <<>>)
         \o MaskSelect(Tail(s), Tail(mask))

\* The positions (flat indices) a label tensor does not mark as ignored.
ValidPositions(labels) ==
    { k \in 1..Numel(labels) : Flatten(labels)[k] # HF_IGNORE_INDEX }

\* F.cross_entropy(logits.view(-1, V), labels.view(-1)): mean of the
\* negative log-likelihood over the labels that are not ignore_index.
CrossEntropy(logits, labels) ==
    LET lf == Flatten(logits)
        yf == Flatten(labels)
        n == Numel(labels)
        nll == [k \in 1..n |-> IF yf[k] = HF_IGNORE_INDEX THEN 0
                                ELSE Nll(lf[k], yf[k])]
        mask == [k \in 1..n |-> yf[k] # HF_IGNORE_INDEX]
    IN  Mean(MaskSelect(nll, mask))

\* loss, lines 111-116: z_loss * mean(logsumexp(logits[labels != -100])^2).
ZLossTerm(logits, labels, z) ==
    LET lf == Flatten(logits)
        yf == Flatten(labels)
        n == Numel(labels)
        mask == [k \in 1..n |-> yf[k] # HF_IGNORE_INDEX]
        log_z == MaskSelect([k \in 1..n |-> LogSumExp(lf[k])], mask)
        log_z2 == [k \in 1..Len(log_z) |-> log_z[k] * log_z[k]]
    IN  RScale(Mean(log_z2), z)

---------------------------------------------------------------------------
\* Python values.

NoneValue == [tag |-> "None", t |-> <<>>]
TensorValue(dtype, t) == [tag |-> dtype, t |-> t]

\* Tensor.bool(): every nonzero element becomes True (kept as 1).
ToBool(v) ==
    [tag |-> "bool",
     t |-> [b \in 1..Len(v.t) |->
              [i \in 1..Len(v.t[b]) |-> IF v.t[b][i] = 0 THEN 0 ELSE 1]]]

EmptyItems == [k \in {} |-> NoneValue]
NoBatch == [kind |-> "none", items |-> EmptyItems]

\* A scalar loss: None, or a float tensor.
NoLoss == [none |-> TRUE, v |-> NaN]
LossOf(x) == [none |-> FALSE, v |-> x]

NoOutputs == [kind |-> "none", loss |-> NoLoss, logits |-> <<>>]
\* How a call ended: returned (val, and for loss the element of outputs it
\* gave back) or raised (exc).
NoResult ==
    [op |-> "none", status |-> "none", exc |-> "", val |-> NoLoss, elem |-> ""]
Returned(op, val) ==
    [op |-> op, status |-> "ok", exc |-> "", val |-> val, elem |-> ""]
Raised(op, exc) ==
    [op |-> op, status |-> "raise", exc |-> exc, val |-> NoLoss, elem |-> ""]

NoCall == [called |-> FALSE, kwargs |-> EmptyItems]
NoCE == [used |-> FALSE, labels |-> <<>>]
NoZ == [read |-> FALSE, used |-> FALSE, positions |-> {}]

InSeq(x, s) == \E i \in 1..Len(s) : s[i] = x

\* The argument lists inspect.getfullargspec(model.forward).args can give
\* for the wrapped models considered (a bound method lists self).
ForwardArgLists ==
    { <<"self", "input_ids", "attention_mask", "labels">>,
      <<"self", "input_ids">> }

\* The wrapped model's configuration objects.
Configs ==
    { [model_type |-> "gpt2", use_return_dict |-> r] : r \in BOOLEAN }

\* module and name of the wrapped model's class.
ModelClass ==
    [module |-> "transformers.models.gpt2.modeling_gpt2",
     name |-> "GPT2LMHeadModel"]

\* The label entries a batch can hold for shape [B, L]: no key, None, or a
\* tensor.
LabelOptions(B, L) ==
    { [present |-> FALSE, val |-> NoneValue],
      [present |-> TRUE, val |-> NoneValue] }
    \cup { [present |-> TRUE, val |-> TensorValue("int64", t)] :
           t \in LabelTensors(B, L) }

Ones(B, L) == [b \in 1..B |-> [i \in 1..L |-> 1]]

BatchItems(B, L, extra, lab) ==
    [k \in {"input_ids"} \cup extra
           \cup (IF lab.present THEN {"labels"} ELSE {}) |->
        CASE k = "input_ids" -> TensorValue("int64", InputIds(B, L))
          [] k = "attention_mask" -> TensorValue("int64", Ones(B, L))
          [] k = "labels" -> lab.val
          [] OTHER -> TensorValue("int64", <<>>)]

\* The batches handed to forward.
Batches ==
    { [kind |-> "list", items |-> EmptyItems] }
    \cup UNION { UNION { { [kind |-> kd, items |-> BatchItems(B, L, extra, lab)] :
                           kd \in BatchKinds \ {"list"},
                           extra \in SUBSET {"attention_mask", "sample_id"} } :
                         lab \in LabelOptions(B, L) } :
                 B \in 1..MaxBatch, L \in 1..MaxLen }

---------------------------------------------------------------------------
VARIABLES
    pc,                 \* where the caller is
    given_z,            \* the z_loss argument of the constructor
    z_loss,             \* self.z_loss
    forward_args,       \* the wrapped model's declared forward arguments
    model_forward_args, \* self.model_forward_args
    config,             \* self.config (the wrapped model's configuration)
    tokenizer,          \* TRUE when a tokenizer was supplied
    batch0,             \* the batch as the caller built it (an equal copy)
    batch,              \* the batch object handed to forward
    outputs0,           \* the outputs object as handed to loss
    outputs,            \* the outputs object (of forward, then after loss)
    result,             \* how the last call ended
    call,               \* the wrapped model call made by the last forward
    ce,                 \* the labels forward gave to F.cross_entropy
    zsel,               \* what the last loss read and selected
    same_batch,         \* TRUE when loss got the object forward got
    fs,                 \* the paths that exist in the file system
    gm,                 \* get_metadata's locals
    metadata            \* the value get_metadata returned

vars ==
    <<pc, given_z, z_loss, forward_args, model_forward_args, config,
      tokenizer, batch0, batch, outputs0, outputs, result, call, ce, zsel,
      same_batch, fs, gm, metadata>>

selfVars == <<given_z, z_loss, forward_args, model_forward_args, config, tokenizer>>
stepVars == <<batch0, batch, outputs0, outputs, call, ce, zsel, same_batch>>
gmVars == <<fs, gm, metadata>>

EmptyDict == [k \in {} |-> ""]
NoGm == [tmp_dir |-> ""]
NoConfigOutput == [file_extension |-> "", content |-> [model_type |-> "", return_dict |-> FALSE], class |-> ""]
\* model_output and tokenizer_output, lines 125-126; has_config is FALSE
\* while model_output is still {}.
NoMetadata == [has_config |-> FALSE, config |-> NoConfigOutput, tokenizer |-> EmptyDict]

Init ==
    /\ pc = "new"
    /\ given_z = 0
    /\ z_loss = 0
    /\ forward_args = <<>>
    /\ model_forward_args = <<>>
    /\ config = [model_type |-> "", use_return_dict |-> TRUE]
    /\ tokenizer = FALSE
    /\ batch0 = NoBatch
    /\ batch = NoBatch
    /\ outputs0 = NoOutputs
    /\ outputs = NoOutputs
    /\ result = NoResult
    /\ call = NoCall
    /\ ce = NoCE
    /\ zsel = NoZ
    /\ same_batch = FALSE
    /\ fs = {}
    /\ gm = NoGm
    /\ metadata = NoMetadata

---------------------------------------------------------------------------
\* __init__, lines 46-70.

\* A mutant of ValidZLoss: the test is off by one.
ValidZLossOffByOne(z) == ~(z < -1)

\* lines 58-59: the constructor raises ValueError unless this holds.
ValidZLoss(z) == ~(z < 0)

Construct ==
    /\ pc = "new"
    /\ \E z \in ZLossValues, args \in ForwardArgLists, cfg \in Configs,
          tok \in BOOLEAN :
        /\ given_z' = z
        /\ z_loss' = z
        /\ config' = cfg
        /\ tokenizer' = tok
        /\ forward_args' = args
        /\ IF ValidZLoss(z)
           THEN /\ model_forward_args' = args \o <<"labels">>
                /\ result' = Returned("__init__", NoLoss)
                /\ pc' = "idle"
           ELSE /\ model_forward_args' = <<>>
                /\ result' = Raised("__init__", "ValueError")
                /\ pc' = "failed"
    /\ UNCHANGED <<stepVars, gmVars>>

---------------------------------------------------------------------------
\* The caller builds a batch for one step.

NewBatch ==
    /\ pc = "idle"
    /\ \E b \in Batches :
        /\ batch0' = b
        /\ batch' = b
    /\ pc' = "batch"
    /\ result' = NoResult
    /\ UNCHANGED <<selfVars, outputs0, outputs, call, ce, zsel, same_batch, gmVars>>

\* The caller drops the step's objects.
EndStep ==
    /\ pc \in {"done", "forwarded"}
    /\ pc' = "idle"
    /\ batch0' = NoBatch
    /\ batch' = NoBatch
    /\ outputs0' = NoOutputs
    /\ outputs' = NoOutputs
    /\ call' = NoCall
    /\ ce' = NoCE
    /\ zsel' = NoZ
    /\ same_batch' = FALSE
    /\ result' = NoResult
    /\ gm' = NoGm
    /\ metadata' = NoMetadata
    /\ UNCHANGED <<selfVars, fs>>

---------------------------------------------------------------------------
\* forward, lines 72-99.

\* batch.pop(key): a list takes an index, so a string raises TypeError; a
\* mapping without the key raises KeyError; otherwise the entry is removed
\* from the object and its value returned.
Pop(b, key) ==
    IF b.kind = "list"
    THEN [exc |-> "TypeError", value |-> NoneValue, batch |-> b]
    ELSE IF key \notin DOMAIN b.items
    THEN [exc |-> "KeyError", value |-> NoneValue, batch |-> b]
    ELSE [exc |-> "",
          value |-> b.items[key],
          batch |-> [b EXCEPT !.items =
                        [k \in (DOMAIN b.items) \ {key} |-> b.items[k]]]]

\* line 74: isinstance(batch, dict) or isinstance(batch, UserDict)
IsMappingType(b) == b.kind \in {"dict", "UserDict"}

\* A mutant of FilterBatch: every key is kept.
FilterBatchKeepAll(items, args) == items

\* lines 76-78: {k: v for k, v in batch.items() if k in self.model_forward_args}
FilterBatch(items, args) ==
    [k \in {j \in DOMAIN items : InSeq(j, args)} |-> items[k]]

\* self.model(**kwargs): the wrapped model raises TypeError on a keyword
\* its forward does not declare, and otherwise returns its logits.
WrappedModel(kwargs, declared) ==
    IF \E k \in DOMAIN kwargs : ~InSeq(k, declared)
    THEN [exc |-> "TypeError", logits |-> <<>>]
    ELSE [exc |-> "", logits |-> LogitsOf(kwargs["input_ids"].t)]

ForwardFails(exc, b, c) ==
    [exc |-> exc, batch |-> b, call |-> c, ce |-> NoCE,
     loss |-> NoLoss, logits |-> <<>>]

ForwardOutcome(b, mfa, declared) ==
    LET p == Pop(b, "labels")
    IN  IF p.exc # "" THEN ForwardFails(p.exc, p.batch, NoCall)
        ELSE IF ~IsMappingType(b)
        THEN ForwardFails("ValueError", p.batch, NoCall)
        ELSE
        LET filtered == FilterBatch(p.batch.items, mfa)
        IN  IF "attention_mask" \notin DOMAIN filtered
            THEN ForwardFails("KeyError", p.batch, NoCall)
            ELSE
            LET kw == [filtered EXCEPT !["attention_mask"] = ToBool(@)]
                c == [called |-> TRUE, kwargs |-> kw]
                m == WrappedModel(kw, declared)
                labels == p.value
            IN  IF m.exc # "" THEN ForwardFails(m.exc, p.batch, c)
                ELSE IF labels.tag # "None"
                THEN LET shifted == ShiftLabels(labels.t)
                     IN  [exc |-> "", batch |-> p.batch, call |-> c,
                          ce |-> [used |-> TRUE, labels |-> shifted],
                          loss |-> LossOf(CrossEntropy(m.logits, shifted)),
                          logits |-> m.logits]
                ELSE [exc |-> "", batch |-> p.batch, call |-> c,
                      ce |-> NoCE, loss |-> NoLoss, logits |-> m.logits]

Forward ==
    /\ pc = "batch"
    /\ LET o == ForwardOutcome(batch, model_forward_args, forward_args)
       IN  /\ batch' = o.batch
           /\ call' = o.call
           /\ ce' = o.ce
           /\ IF o.exc = ""
              THEN /\ outputs' = [kind |-> "ModelOutput", loss |-> o.loss,
                                  logits |-> o.logits]
                   /\ result' = Returned("forward", o.loss)
                   /\ pc' = "forwarded"
              ELSE /\ outputs' = NoOutputs
                   /\ result' = Raised("forward", o.exc)
                   /\ pc' = "done"
    /\ UNCHANGED <<selfVars, batch0, outputs0, zsel, same_batch, gmVars>>

---------------------------------------------------------------------------
\* loss, lines 101-122.

\* The representations of outputs under the configured return convention:
\* the ModelOutput forward returned (read by key and by index), a plain
\* dict when use_return_dict is set, a plain tuple or list when it is not.
OutputReps(use_return_dict) ==
    IF use_return_dict THEN {"ModelOutput", "dict"}
    ELSE {"ModelOutput", "tuple", "list"}

\* A mutant of ShortCircuit: the z-loss branch is always taken.
ShortCircuitNever(z) == FALSE

\* line 107: self.z_loss == 0.0
ShortCircuit(z) == z = 0

\* lines 102-106: the loss the code binds from outputs.  A ModelOutput
\* holds only its fields that are not None: without a loss, outputs['loss']
\* raises KeyError, and outputs[:2] starts at the logits, so that the
\* unpacking raises ValueError or, when the wrapped model returned
\* past_key_values (pkv), binds the logits as the loss.
Extract(o, use_return_dict, pkv) ==
    IF o.kind = "ModelOutput" /\ o.loss.none
    THEN IF use_return_dict THEN [exc |-> "KeyError", elem |-> ""]
         ELSE IF pkv THEN [exc |-> "", elem |-> "logits"]
         ELSE [exc |-> "ValueError", elem |-> ""]
    ELSE [exc |-> "", elem |-> "loss"]

\* A mutant of LossLabels: the labels are shifted as forward shifts them.
LossLabelsShifted(b) == ShiftLabels(b.items["labels"].t)

\* line 112: batch['labels'], the labels loss masks with.
LossLabels(b) == b.items["labels"].t

LossFails(exc, o, z) ==
    [exc |-> exc, val |-> NoLoss, elem |-> "", outputs |-> o, zsel |-> z]

LossOutcome(o, b, z, use_return_dict, pkv) ==
    LET x == Extract(o, use_return_dict, pkv)
        rd == [read |-> TRUE, used |-> FALSE, positions |-> {}]
    IN  IF x.exc # "" THEN LossFails(x.exc, o, NoZ)
        ELSE IF ShortCircuit(z)
        THEN [exc |-> "", val |-> o.loss, elem |-> x.elem, outputs |-> o,
              zsel |-> NoZ]
        \* line 111: logits.view on the tuple bound in place of the logits
        ELSE IF x.elem # "loss" THEN LossFails("AttributeError", o, NoZ)
        ELSE IF "labels" \notin DOMAIN b.items THEN LossFails("KeyError", o, rd)
        ELSE IF b.items["labels"].tag = "None"
        THEN LossFails("AttributeError", o, rd)
        ELSE
        LET labels == LossLabels(b)
            sel == [read |-> TRUE, used |-> TRUE,
                    positions |-> ValidPositions(labels)]
            term == ZLossTerm(o.logits, labels, z)
        IN  IF o.loss.none THEN LossFails("TypeError", o, sel)
            ELSE
            LET new == LossOf(RAdd(o.loss.v, term))
                \* lines 118, 121: the loss tensor is added to in place,
                \* then stored back into outputs
                added == [o EXCEPT !.loss = new]
            IN  IF ~use_return_dict /\ o.kind = "tuple"
                THEN LossFails("TypeError", added, sel)
                ELSE [exc |-> "", val |-> new, elem |-> "loss",
                      outputs |-> added, zsel |-> sel]

Loss ==
    /\ pc = "forwarded"
    /\ \E same \in BOOLEAN, rep \in OutputReps(config.use_return_dict),
          pkv \in BOOLEAN :
        LET arg_o == [outputs EXCEPT !.kind = rep]
            arg_b == IF same THEN batch ELSE batch0
            r == LossOutcome(arg_o, arg_b, z_loss, config.use_return_dict, pkv)
        IN  /\ outputs0' = arg_o
            /\ outputs' = r.outputs
            /\ zsel' = r.zsel
            /\ same_batch' = same
            /\ result' = IF r.exc = ""
                         THEN [Returned("loss", r.val) EXCEPT !.elem = r.elem]
                         ELSE Raised("loss", r.exc)
    /\ pc' = "done"
    /\ UNCHANGED <<selfVars, batch0, batch, call, ce, gmVars>>

---------------------------------------------------------------------------
\* get_metadata, lines 124-144.  The file system is a set of entries
\* [path, data]; a path is a sequence of names and a directory has no data.

Dir(path) == [path |-> path, data |-> <<>>]
File(path, data) == [path |-> path, data |-> data]

\* config.save_pretrained writes config.json: the JSON document of the
\* configuration, a sequence of <<key, literal>> members.
ToJsonString(cfg) ==
    << <<"model_type", cfg.model_type>>,
       <<"return_dict", IF cfg.use_return_dict THEN "true" ELSE "false">> >>

Member(doc, key) == doc[CHOOSE i \in 1..Len(doc) : doc[i][1] = key][2]

\* json.load of such a document.
JsonLoad(doc) ==
    [model_type |-> Member(doc, "model_type"),
     return_dict |-> (Member(doc, "return_dict") = "true")]

\* A mutant of ExitTmp: the directory is removed on the normal path only.
ExitTmpOnReturnOnly(files, d, raising) ==
    IF raising THEN files ELSE { f \in files : f.path[1] # d }

\* line 127: leaving the with block (by return or by exception) removes
\* the temporary directory and everything under it.
ExitTmp(files, d, raising) == { f \in files : f.path[1] # d }

\* lines 125-130: tempfile.TemporaryDirectory() makes a fresh directory.
GmEnter ==
    /\ pc = "idle"
    /\ \E d \in TmpNames :
        /\ Dir(<<d>>) \notin fs
        /\ fs' = fs \cup {Dir(<<d>>)}
        /\ gm' = [tmp_dir |-> d]
    /\ metadata' = NoMetadata
    /\ result' = NoResult
    /\ pc' = "gm_save_config"
    /\ UNCHANGED <<selfVars, stepVars>>

\* line 131: self.model.config.save_pretrained(model_dir), which may raise.
GmSaveConfig ==
    /\ pc = "gm_save_config"
    /\ \E ok \in BOOLEAN :
        IF ok
        THEN /\ fs' = fs \cup { Dir(<<gm.tmp_dir, "model">>),
                                File(<<gm.tmp_dir, "model", "config.json">>,
                                     ToJsonString(config)) }
             /\ pc' = IF tokenizer THEN "gm_save_tokenizer" ELSE "gm_read"
             /\ result' = result
        ELSE /\ fs' = ExitTmp(fs, gm.tmp_dir, TRUE)
             /\ pc' = "done"
             /\ result' = Raised("get_metadata", "OSError")
    /\ UNCHANGED <<selfVars, stepVars, gm, metadata>>

\* lines 132-133: self.tokenizer.save_pretrained(tokenizer_dir), which may
\* raise.
GmSaveTokenizer ==
    /\ pc = "gm_save_tokenizer"
    /\ \E ok \in BOOLEAN :
        IF ok
        THEN /\ fs' = fs \cup { Dir(<<gm.tmp_dir, "tokenizer">>),
                                File(<<gm.tmp_dir, "tokenizer",
                                       "tokenizer_config.json">>, <<>>) }
             /\ pc' = "gm_read"
             /\ result' = result
        ELSE /\ fs' = ExitTmp(fs, gm.tmp_dir, TRUE)
             /\ pc' = "done"
             /\ result' = Raised("get_metadata", "OSError")
    /\ UNCHANGED <<selfVars, stepVars, gm, metadata>>

\* lines 135-144: config.json is read back (the read may raise), the
\* result is built, the with block is left and the result returned.
GmReadConfig ==
    /\ pc = "gm_read"
    /\ \E ok \in BOOLEAN :
        IF ok
        THEN LET f == CHOOSE x \in fs :
                        x.path = <<gm.tmp_dir, "model", "config.json">>
                 model_config == JsonLoad(f.data)
             IN  /\ metadata' =
                       [has_config |-> TRUE,
                        config |->
                          [file_extension |-> ".json",
                           content |-> model_config,
                           class |-> ModelClass.module \o "." \o ModelClass.name],
                        tokenizer |-> EmptyDict]
                 /\ fs' = ExitTmp(fs, gm.tmp_dir, FALSE)
                 /\ result' = Returned("get_metadata", NoLoss)
        ELSE /\ metadata' = metadata
             /\ fs' = ExitTmp(fs, gm.tmp_dir, TRUE)
             /\ result' = Raised("get_metadata", "OSError")
    /\ pc' = "done"
    /\ UNCHANGED <<selfVars, stepVars, gm>>

---------------------------------------------------------------------------
Next ==
    \/ Construct
    \/ NewBatch
    \/ Forward
    \/ Loss
    \/ EndStep
    \/ GmEnter
    \/ GmSaveConfig
    \/ GmSaveTokenizer
    \/ GmReadConfig

Spec == Init /\ [][Next]_vars

---------------------------------------------------------------------------
\* Properties.

HasLabelTensor(b) ==
    /\ "labels" \in DOMAIN b.items
    /\ b.items["labels"].tag # "None"

GmRunning == pc \in {"gm_save_config", "gm_save_tokenizer", "gm_read"}

\* C1: after forward(batch), loss(outputs, batch) with the outputs of that
\* forward and the same batch object, z_loss > 0 and non-null labels:
\* loss returns, the batch still holds labels, and the value is the base
\* loss plus z_loss times the mean squared log-sum-exp over the positions
\* whose batch label is not -100.
C1_LossAfterForward ==
    (/\ result.op = "loss"
     /\ same_batch
     /\ outputs0.kind = "ModelOutput"
     /\ z_loss > 0
     /\ HasLabelTensor(batch0))
    => /\ result.status = "ok"
       /\ HasLabelTensor(batch)
       /\ result.val =
            LossOf(RAdd(outputs0.loss.v,
                        ZLossTerm(outputs0.logits, batch0.items["labels"].t,
                                  z_loss)))

\* C2: the labels forward uses for the cross entropy are the original
\* labels shifted left by one within each sequence, with -100 in the last
\* position, and hold no label of another sequence.
C2_LabelShift ==
    ce.used =>
        LET orig == batch0.items["labels"].t
            B == Size0(orig)
            L == Size1(orig)
        IN  /\ Size0(ce.labels) = B
            /\ \A b \in 1..B :
                /\ Len(ce.labels[b]) = L
                /\ \A i \in 1..(L - 1) : ce.labels[b][i] = orig[b][i + 1]
                /\ ce.labels[b][L] = -100
                /\ \A i \in 1..L, b2 \in (1..B) \ {b}, j \in 1..L :
                      orig[b2][j] # -100 => ce.labels[b][i] # orig[b2][j]

C2_Witness ==
    /\ ce.used
    /\ Size0(ce.labels) >= 2
    /\ Size1(ce.labels) >= 2
    /\ batch0.items["labels"].t[2][1] # -100
    /\ batch0.items["labels"].t[1][2] # -100

\* C3: every keyword forward passes to the wrapped model is a name of the
\* argument set recorded at construction; no other batch key is passed,
\* and labels is never passed.
C3_Filtering ==
    call.called =>
        /\ \A k \in DOMAIN call.kwargs : InSeq(k, model_forward_args)
        /\ \A k \in DOMAIN batch0.items :
              ~InSeq(k, model_forward_args) => k \notin DOMAIN call.kwargs
        /\ "labels" \notin DOMAIN call.kwargs

C3_Witness ==
    /\ call.called
    /\ "sample_id" \in DOMAIN batch0.items
    /\ HasLabelTensor(batch0)
    /\ InSeq("labels", forward_args)
    /\ DOMAIN call.kwargs = {"input_ids", "attention_mask"}

\* C4: with labels absent from the batch or None, forward returns an
\* output whose loss is None and whose logits are the wrapped model's.
C4_NoLabels ==
    (/\ result.op = "forward"
     /\ IsMappingType(batch0)
     /\ "attention_mask" \in DOMAIN batch0.items
     /\ InSeq("attention_mask", model_forward_args)
     /\ ~HasLabelTensor(batch0))
    => /\ result.status = "ok"
       /\ outputs.loss = NoLoss
       /\ outputs.logits = LogitsOf(batch0.items["input_ids"].t)

\* C5: forward on a batch that is neither a dict nor a UserDict raises
\* ValueError, leaves the batch object as it was and does not call the
\* wrapped model.
C5_NonMapping ==
    (/\ result.op = "forward"
     /\ ~IsMappingType(batch0))
    => /\ result.status = "raise"
       /\ result.exc = "ValueError"
       /\ batch = batch0
       /\ ~call.called

\* The state part of C6.
C6_Returned ==
    (/\ result.op = "loss"
     /\ z_loss = 0
     /\ (outputs0.kind = "ModelOutput" => ~outputs0.loss.none))
    => /\ result.status = "ok"
       /\ result.elem = "loss"
       /\ result.val = outputs0.loss
       /\ outputs = outputs0
       /\ ~zsel.read

C7_BothRepresentations ==
    (/\ result.op = "loss"
     /\ z_loss > 0
     /\ ~same_batch
     /\ outputs0.kind \in {"dict", "tuple"}
     /\ HasLabelTensor(batch0))
    => /\ result.status = "ok"
       /\ result.val =
            LossOf(RAdd(outputs0.loss.v,
                        ZLossTerm(outputs0.logits, batch0.items["labels"].t,
                                  z_loss)))
       /\ outputs.loss = result.val

\* C8: construction raises ValueError exactly when z_loss < 0, and after a
\* successful construction the stored coefficient is >= 0 and equal to the
\* value given, whatever is called.
C8_ZLossInvariant ==
    pc # "new" =>
        /\ (given_z < 0) <=> (pc = "failed")
        /\ pc = "failed" => result = Raised("__init__", "ValueError")
        /\ pc # "failed" => (z_loss >= 0 /\ z_loss = given_z)

C8_Witness ==
    /\ result.op = "loss"
    /\ result.status = "ok"
    /\ z_loss > 0
    /\ zsel.used

\* C9: the temporary directory of get_metadata does not exist once it has
\* returned or raised, and the value returned holds the parsed saved
\* configuration, the class name of the wrapped model and an empty
\* tokenizer entry.
C9_TmpDirCleanup ==
    /\ ~GmRunning => fs = {}
    /\ (result.op = "get_metadata" /\ result.status = "ok") =>
          metadata =
            [has_config |-> TRUE,
             config |->
               [file_extension |-> ".json",
                content |-> [model_type |-> config.model_type,
                             return_dict |-> config.use_return_dict],
                class |-> "transformers.models.gpt2.modeling_gpt2.GPT2LMHeadModel"],
             tokenizer |-> EmptyDict]

C9_Witness ==
    /\ result.op = "get_metadata"
    /\ result.status = "ok"
    /\ tokenizer
    /\ metadata.has_config
    /\ fs = {}

\* The last position of every sequence of a [B, L] tensor, as flat indices.
LastPositions(t) == { b * Size1(t) : b \in 1..Size0(t) }

\* C10 as stated: the positions loss averages the z-loss term over are the
\* positions forward counted in the cross entropy, and the last position
\* of every sequence is in neither.
C10_SamePositions ==
    (zsel.used /\ ce.used) =>
        /\ zsel.positions = ValidPositions(ce.labels)
        /\ zsel.positions \cap LastPositions(ce.labels) = {}

\* C10 amended: loss masks with the labels of the batch it is given,
\* unshifted, while forward counted position k exactly when k is not last
\* in its sequence and the label at k + 1 is not -100; given the batch
\* object forward consumed, loss finds no labels, raises KeyError and
\* selects nothing.
C10_MaskPositions ==
    (result.op = "loss" /\ z_loss > 0 /\ ce.used) =>
        LET orig == batch0.items["labels"].t
        IN  /\ ValidPositions(ce.labels) =
                 { k \in 1..Numel(orig) :
                     /\ k \notin LastPositions(orig)
                     /\ Flatten(orig)[k + 1] # -100 }
            /\ IF same_batch
               THEN /\ result = Raised("loss", "KeyError")
                    /\ ~zsel.used
               ELSE /\ zsel.used
                    /\ zsel.positions =
                         { k \in 1..Numel(orig) : Flatten(orig)[k] # -100 }

C10_Witness ==
    /\ result.op = "loss"
    /\ z_loss > 0
    /\ ce.used
    /\ zsel.used
    /\ zsel.positions # ValidPositions(ce.labels)
    /\ zsel.positions \cap LastPositions(ce.labels) # {}

====
